---- MODULE Spec2Model ----
(***************************************************************************)
(* Model of generate_wallpaper.py: the daily dot-calendar wallpaper        *)
(* generator (DeviceProfile, PaletteFactory, LayoutEngine, Renderer,       *)
(* main).                                                                  *)
(*                                                                         *)
(* Floats of the source are modelled by exact integer arithmetic:          *)
(*   x / (24 + 11*1.8)  = x / 43.8               = 5x / 219                *)
(*   x / (31 * (2+0.6)) = x / 80.60000000000001  ~ 5x / 403 (see           *)
(*                                                 RadiusFromHeight)       *)
(*   r * 1.8 = 9r / 5,  r * 0.6 = 3r / 5                                   *)
(* Hues are kept in half degrees (HueScale), so that int(base_hue) is a    *)
(* real truncation.                                                        *)
(***************************************************************************)
EXTENDS Integers, Sequences, FiniteSets, TLC

VARIABLES
    now,        \* datetime of the run: [year, month, day]
    device,     \* DeviceProfile handed to LayoutEngine.compute / Renderer
    palette,    \* Palette returned by PaletteFactory.generate, or NoPalette
    grid,       \* GridConfig returned by LayoutEngine.compute, or NoGrid
    img,        \* image returned by Renderer.render, or NoImage
    lastCall,   \* the previous compute call: [device, year, grid], or NoCall
    img_max,    \* main's second image (img_max), or NoImage
    rand,       \* the draws generate() took from the random source, or NoDraw
    pc,         \* position of the run inside main()
    files,      \* what the run has written below output_dir: path -> content
    error,      \* exception that ended the run, "None" while there is none
    todayRuns   \* per cell, the number of daily runs that drew it as today

vars == <<now, device, palette, grid, img, img_max, rand, lastCall, pc, files, error, todayRuns>>

\* ------------------------------------------------------------------ bounds
MaxYearOffset == 1      \* years 2024 .. 2024 + MaxYearOffset (and 2100)
MaxWidthSteps == 5      \* device widths 219, 438, ... (exact fits of radius 5k)
MaxHeightSteps == 7     \* device heights 403, 806, ... (exact fits of radius 5k)
MaxHueSamples == 12     \* number of sampled base hues
HueScale == 2           \* hues are counted in 1 / HueScale degrees
MaxDrawSteps == 2       \* draws of random() are k / MaxDrawSteps, k = 0 .. MaxDrawSteps

NoPalette == [none |-> "NoPalette"]
NoGrid == [none |-> "NoGrid"]
NoImage == [none |-> "NoImage"]
NoCall == [none |-> "NoCall"]
NoDraw == [none |-> "NoDraw"]
NotWritten == [none |-> "NotWritten"]

\* ---------------------------------------------------------------- calendar
\* calendar.isleap
IsLeap(y) == (y % 4 = 0) /\ ((y % 100 # 0) \/ (y % 400 = 0))

\* calendar.monthrange(year, m)[1]
DaysInMonth(y, m) ==
    IF m = 2 THEN (IF IsLeap(y) THEN 29 ELSE 28)
    ELSE IF m \in {4, 6, 9, 11} THEN 30 ELSE 31

Months == 1..12

Years == {2024 + k : k \in 0..MaxYearOffset} \cup {2100}

\* the (month, day) cells the two loops of _draw_dots visit
Cells(y) == {c \in Months \X (1..31) : c[2] <= DaysInMonth(y, c[1])}

Dates == {[year |-> y, month |-> c[1], day |-> c[2]] : y \in Years, c \in Months \X (1..31)}

ValidDates == {t \in Dates : t.day <= DaysInMonth(t.year, t.month)}

\* ---------------------------------------------------------- device profiles
SafeZone(t, b, l, r) == [top |-> t, bottom |-> b, left |-> l, right |-> r]

DeviceProfile(n, w, h, sz) == [name |-> n, width |-> w, height |-> h, safe_zone |-> sz]

\* DeviceProfile.content_bounds: (left, top, right, bottom)
content_bounds(dev) ==
    << dev.safe_zone.left,
       dev.safe_zone.top,
       dev.width - dev.safe_zone.right,
       dev.height - dev.safe_zone.bottom >>

DEVICE_STANDARD == DeviceProfile("iPhone 13 Pro", 1170, 2532, SafeZone(720, 290, 58, 58))

DEVICE_MAX == DeviceProfile("iPhone 16 Pro Max", 1320, 2868, SafeZone(840, 340, 68, 68))

\* the safe zones tried: none, and those of the two target devices
SafeZones == {SafeZone(0, 0, 0, 0), DEVICE_STANDARD.safe_zone, DEVICE_MAX.safe_zone}

Widths == {219 * k : k \in 1..MaxWidthSteps} \cup {116, DEVICE_STANDARD.width, DEVICE_MAX.width}

Heights == {403 * k : k \in 1..MaxHeightSteps} \cup {DEVICE_STANDARD.height, DEVICE_MAX.height}

Devices == {DEVICE_STANDARD, DEVICE_MAX} \cup
           {DeviceProfile("custom", w, h, sz) : w \in Widths, h \in Heights, sz \in SafeZones}

\* ------------------------------------------------------------ LayoutEngine
MAX_RADIUS == 22
MIN_RADIUS == 10
ISLAND_PADDING == 40

Min(a, b) == IF a <= b THEN a ELSE b
Max(a, b) == IF a >= b THEN a ELSE b

\* int(n / d) of Python for the exact quotient n / d, d > 0: truncation to zero
Trunc(n, d) == IF n >= 0 THEN n \div d ELSE 0 - ((0 - n) \div d)

\* max(calendar.monthrange(year, m)[1] for m in range(1, 13))
MaxDays(y) == CHOOSE x \in {DaysInMonth(y, m) : m \in Months} :
                  \A m \in Months : DaysInMonth(y, m) <= x

\* int(content_width / divisor), divisor = 24 + 11 * 1.8 = 43.8 as a double;
\* the double quotient truncates like the exact one for |content_width| < 5000
RadiusFromWidth(content_width) == Trunc(content_width * 5, 219)

\* int(content_height / row_divisor), row_divisor = max_days * (2 + 0.6).
\* As a double 31 * 2.6 is 80.60000000000001, a little more than 80.6, so where
\* content_height is an exact multiple of 80.6 the double quotient lies just
\* under the integer and int() yields one less (|content_height| < 5000).
RadiusFromHeight(content_height, max_days) ==
    LET n == content_height * 50
        d == max_days * 130
        q == Trunc(n, d)
    IN IF n % d = 0 /\ q # 0
       THEN (IF q > 0 THEN q - 1 ELSE q + 1)
       ELSE q

\* Radius with the cap forgotten: radius = max(min(rw, rh), MIN_RADIUS)
RadiusUncapped(radius_from_width, radius_from_height) ==
    Max(Min(radius_from_width, radius_from_height), MIN_RADIUS)

\* radius = min(radius_from_width, radius_from_height, MAX_RADIUS);
\* radius = max(radius, MIN_RADIUS)
Radius(radius_from_width, radius_from_height) ==
    Max(Min(Min(radius_from_width, radius_from_height), MAX_RADIUS), MIN_RADIUS)

\* ColGap with the ratio taken as a percentage: int(radius * 1.8 / 100)
ColGapPercent(radius) == Trunc(radius * 9, 500)

\* ColGap rounding to nearest instead of truncating: round(radius * 1.8)
ColGapRounded(radius) == (radius * 18 + 5) \div 10

\* col_gap = int(radius * COL_GAP_RATIO), COL_GAP_RATIO = 1.8
ColGap(radius) == Trunc(radius * 9, 5)

\* row_gap = int(radius * ROW_GAP_RATIO), ROW_GAP_RATIO = 0.6
RowGap(radius) == Trunc(radius * 3, 5)

\* Python's floor division by 2
FloorDiv2(a) == a \div 2

\* LayoutEngine.compute(device, year): always returns a GridConfig, there is
\* no validation and no raise in it
compute(dev, y) ==
    LET cb == content_bounds(dev)
        left == cb[1]
        top == cb[2]
        content_width == cb[3] - cb[1]
        content_height == cb[4] - cb[2]
        max_days == MaxDays(y)
        radius == Radius(RadiusFromWidth(content_width),
                         RadiusFromHeight(content_height, max_days))
        col_gap == ColGap(radius)
        row_gap == RowGap(radius)
        diam == 2 * radius
        step_x == diam + col_gap
        step_y == diam + row_gap
        total_grid_width == 12 * diam + 11 * col_gap
        origin_x == left + FloorDiv2(content_width - total_grid_width) + radius
        origin_y == top + radius
        pad == ISLAND_PADDING
    IN [ cols |-> 12,
         max_rows |-> max_days,
         origin_x |-> origin_x,
         origin_y |-> origin_y,
         step_x |-> step_x,
         step_y |-> step_y,
         radius |-> radius,
         island_bounds |-> << origin_x - radius - pad,
                              origin_y - radius - pad,
                              origin_x + 11 * step_x + radius + pad,
                              origin_y + (max_days - 1) * step_y + radius + pad >> ]

\* the box handed to draw.ellipse for cell (m, d): (x0, y0, x1, y1)
DotBox(g, m, d) ==
    LET cx == g.origin_x + (m - 1) * g.step_x
        cy == g.origin_y + (d - 1) * g.step_y
    IN << cx - g.radius, cy - g.radius, cx + g.radius, cy + g.radius >>

\* ---------------------------------------------------------- PaletteFactory

\* HarmonyType, by member name, each name as its sequence of characters
HarmonyName ==
    [ ANALOGOUS |-> <<"A","N","A","L","O","G","O","U","S">>,
      COMPLEMENTARY |-> <<"C","O","M","P","L","E","M","E","N","T","A","R","Y">>,
      SPLIT_COMPLEMENTARY |->
          <<"S","P","L","I","T","_","C","O","M","P","L","E","M","E","N","T","A","R","Y">>,
      TRIADIC |-> <<"T","R","I","A","D","I","C">>,
      MONOCHROMATIC |-> <<"M","O","N","O","C","H","R","O","M","A","T","I","C">> ]

\* HARMONY_WEIGHTS: every kind has a positive weight, so _pick_harmony can
\* return each of them
HARMONY_WEIGHTS ==
    [ ANALOGOUS |-> 3, COMPLEMENTARY |-> 2, SPLIT_COMPLEMENTARY |-> 2,
      TRIADIC |-> 1, MONOCHROMATIC |-> 2 ]

\* _pick_harmony: the kinds random.choices can return
HarmonyTypes == {k \in DOMAIN HARMONY_WEIGHTS : HARMONY_WEIGHTS[k] > 0}

\* per-role (saturation, lightness) ranges, in percent: BG_SATURATION,
\* BG_LIGHTNESS, PAST_SATURATION, ...
RoleRanges ==
    [ bg |-> [s |-> <<20, 50>>, l |-> <<4, 10>>],
      past |-> [s |-> <<35, 65>>, l |-> <<70, 85>>],
      today |-> [s |-> <<70, 95>>, l |-> <<50, 65>>],
      future |-> [s |-> <<8, 20>>, l |-> <<20, 28>>] ]

\* _wrap_hue: h % 360 (Python's %, never negative)
WrapHue(h) == h % (360 * HueScale)

\* _make_color: a colour of the wrapped hue whose saturation and lightness are
\* drawn from the ranges of `role`; the colour is kept as <<hue, role>>, its
\* two draws and the conversion to RGB are not carried out
MakeColor(hue, role) == <<WrapHue(hue), role>>

\* _make_bg, _make_past, _make_today, _make_future
MakeBg(hue) == MakeColor(hue, "bg")
MakePast(hue) == MakeColor(hue, "past")
MakeToday(hue) == MakeColor(hue, "today")
MakeFuture(hue) == MakeColor(hue, "future")

\* IntHue rounding to nearest instead of truncating: round(base_hue)
IntHueRounded(base_hue) == (2 * base_hue + HueScale) \div (2 * HueScale)

\* int(base_hue)
IntHue(base_hue) == base_hue \div HueScale

Digit == <<"0", "1", "2", "3", "4", "5", "6", "7", "8", "9">>

\* str(n) for n >= 0, as characters
RECURSIVE IntStr(_)
IntStr(n) == IF n < 10 THEN <<Digit[n + 1]>>
             ELSE IntStr(n \div 10) \o <<Digit[(n % 10) + 1]>>

\* the literal text each builder's f-string puts before the hue
NamePrefix ==
    [ ANALOGOUS |-> <<"a","n","a","l","o","g","o","u","s","_">>,
      COMPLEMENTARY |-> <<"c","o","m","p","l","e","m","e","n","t","a","r","y","_">>,
      SPLIT_COMPLEMENTARY |-> <<"s","p","l","i","t","_","c","o","m","p","_">>,
      TRIADIC |-> <<"t","r","i","a","d","i","c","_">>,
      MONOCHROMATIC |-> <<"m","o","n","o","c","h","r","o","m","a","t","i","c","_">> ]

\* f"<prefix>_{int(base_hue)}"
PaletteName(harmony, base_hue) == NamePrefix[harmony] \o IntStr(IntHue(base_hue))

Palette(n, k, b, p, t, f) ==
    [name |-> n, harmony |-> k, bg |-> b, past |-> p, today |-> t, future |-> f]

\* _analogous: offset = random.uniform(15, 35)
Analogous(base_hue, offset) ==
    Palette(PaletteName("ANALOGOUS", base_hue), "ANALOGOUS",
            MakeBg(base_hue),
            MakePast(WrapHue(base_hue + offset)),
            MakeToday(WrapHue(base_hue - offset)),
            MakeFuture(base_hue))

\* _complementary: jitter = random.uniform(-15, 15)
Complementary(base_hue, jitter) ==
    LET comp_hue == WrapHue(base_hue + 180 * HueScale)
    IN Palette(PaletteName("COMPLEMENTARY", base_hue), "COMPLEMENTARY",
               MakeBg(base_hue),
               MakePast(WrapHue(comp_hue + jitter)),
               MakeToday(comp_hue),
               MakeFuture(base_hue))

\* _split_complementary
SplitComplementary(base_hue) ==
    Palette(PaletteName("SPLIT_COMPLEMENTARY", base_hue), "SPLIT_COMPLEMENTARY",
            MakeBg(base_hue),
            MakePast(WrapHue(base_hue + 150 * HueScale)),
            MakeToday(WrapHue(base_hue + 210 * HueScale)),
            MakeFuture(base_hue))

\* _triadic
Triadic(base_hue) ==
    Palette(PaletteName("TRIADIC", base_hue), "TRIADIC",
            MakeBg(base_hue),
            MakePast(WrapHue(base_hue + 120 * HueScale)),
            MakeToday(WrapHue(base_hue + 240 * HueScale)),
            MakeFuture(base_hue))

\* _monochromatic
Monochromatic(base_hue) ==
    Palette(PaletteName("MONOCHROMATIC", base_hue), "MONOCHROMATIC",
            MakeBg(base_hue),
            MakePast(base_hue),
            MakeToday(base_hue),
            MakeFuture(base_hue))

\* random.uniform(a, b) = a + (b - a) * random(), the draw of random() being
\* u / MaxDrawSteps
Uniform(a, b, u) == a + ((b - a) * u) \div MaxDrawSteps

\* PaletteFactory.generate for the draws (harmony, base_hue, u); u is the one
\* further draw made by _analogous (offset) and _complementary (jitter)
generate(harmony, base_hue, u) ==
    CASE harmony = "ANALOGOUS" ->
             Analogous(base_hue, Uniform(15 * HueScale, 35 * HueScale, u))
      [] harmony = "COMPLEMENTARY" ->
             Complementary(base_hue, Uniform((0 - 15) * HueScale, 15 * HueScale, u))
      [] harmony = "SPLIT_COMPLEMENTARY" -> SplitComplementary(base_hue)
      [] harmony = "TRIADIC" -> Triadic(base_hue)
      [] harmony = "MONOCHROMATIC" -> Monochromatic(base_hue)

\* sampled draws of random.uniform(0, 360), in units of 1 / HueScale degree:
\* 0, the last value below 360 and values spread over the circle
BaseHues == {(k * 173) % (360 * HueScale) : k \in 0..MaxHueSamples} \cup {360 * HueScale - 1}

\* sampled draws of random()
Draws == 0..MaxDrawSteps

\* the further draw is made by two builders only
DrawsOf(harmony) == IF harmony \in {"ANALOGOUS", "COMPLEMENTARY"} THEN Draws ELSE {0}

\* ---------------------------------------------------------------- Renderer
\* draw order of _draw_dots: months outside, days inside
CellBefore(c1, c2) == c1[1] < c2[1] \/ (c1[1] = c2[1] /\ c1[2] < c2[2])

\* DotColor with the day compared inclusively: today's cell is drawn as past
DotColorInclusive(p, m, d, month, day) ==
    IF m < month \/ (m = month /\ d <= day) THEN p.past
    ELSE IF m = month /\ d = day THEN p.today
    ELSE p.future

\* DotColor with the month left out of the comparison for past days
DotColorDayOnly(p, m, d, month, day) ==
    IF d < day THEN p.past
    ELSE IF m = month /\ d = day THEN p.today
    ELSE p.future

\* the branch of _draw_dots that picks the fill colour of cell (m, d)
DotColor(p, m, d, month, day) ==
    IF m < month \/ (m = month /\ d < day) THEN p.past
    ELSE IF m = month /\ d = day THEN p.today
    ELSE p.future

\* Renderer._draw_dots: one ellipse per cell of the year, month by month and
\* day by day; dots[m][d] is the fill of the ellipse drawn in DotBox(g, m, d)
draw_dots(g, p, y, month, day) ==
    [m \in Months |-> [d \in 1..DaysInMonth(y, m) |-> DotColor(p, m, d, month, day)]]

\* ImageNew with the size given as (height, width)
ImageNewTransposed(w, h, color) == [width |-> h, height |-> w, bg |-> color]

\* Image.new("RGB", (width, height), color)
ImageNew(w, h, color) == [width |-> w, height |-> h, bg |-> color]

\* fill of the glass island: bg lightened by lighten_fill = 30 per channel at
\* fill_opacity = 25, alpha-composited over bg (kept symbolic)
IslandOver(bg) == <<bg[1], "island">>

\* Renderer.render: the canvas filled with palette.bg, the island panel over
\* it, the dots over both. The image is kept as these layers; `geom` is the
\* grid the ellipses were placed with.
render(dev, p, g, y, month, day) ==
    LET canvas == ImageNew(dev.width, dev.height, p.bg)
    IN [ width |-> canvas.width,
         height |-> canvas.height,
         bg |-> canvas.bg,
         island |-> [bounds |-> g.island_bounds, fill |-> IslandOver(p.bg)],
         geom |-> <<g.origin_x, g.origin_y, g.step_x, g.step_y, g.radius>>,
         dots |-> draw_dots(g, p, y, month, day) ]

\* the cells an image has a dot for
DrawnCells(image) ==
    {c \in Months \X (1..31) : c[2] \in DOMAIN image.dots[c[1]]}

\* the box of the ellipse of cell c in an image
ImageDotBox(image, c) ==
    DotBox([origin_x |-> image.geom[1], origin_y |-> image.geom[2],
            step_x |-> image.geom[3], step_y |-> image.geom[4],
            radius |-> image.geom[5]], c[1], c[2])

InBox(x, y, box) == box[1] <= x /\ x <= box[3] /\ box[2] <= y /\ y <= box[4]

\* pixel (x, y) lies in the disc ImageDraw.ellipse fills inside `box`
InEllipse(x, y, box) ==
    LET r2 == box[3] - box[1]       \* twice the radius
        dx == 2 * x - (box[1] + box[3])
        dy == 2 * y - (box[2] + box[4])
    IN InBox(x, y, box) /\ dx * dx + dy * dy <= r2 * r2

\* img.getpixel((x, y)): the topmost layer at the pixel; dots are drawn in
\* cell order, so the last cell covering the pixel shows. The island's rounded
\* corners and border are not told apart from its fill.
GetPixel(image, x, y) ==
    LET inside == 0 <= x /\ x < image.width /\ 0 <= y /\ y < image.height
        hit == {c \in DrawnCells(image) : InEllipse(x, y, ImageDotBox(image, c))}
    IN IF ~inside THEN <<0, "IndexError">>
       ELSE IF hit # {}
       THEN LET top == CHOOSE c \in hit : \A c2 \in hit : c2 = c \/ CellBefore(c2, c)
            IN image.dots[top[1]][top[2]]
       ELSE IF InBox(x, y, image.island.bounds) THEN image.island.fill
       ELSE image.bg

\* _render_for_device
render_for_device(dev, p, t) ==
    render(dev, p, compute(dev, t.year), t.year, t.month, t.day)

\* ------------------------------------------------------------------- files
LATEST_PNG == "latest.png"
LATEST_MAX_PNG == "latest_max.png"
PALETTE_JSON == "palette.json"

Paths == {LATEST_PNG, LATEST_MAX_PNG, PALETTE_JSON}

NoFiles == [f \in Paths |-> NotWritten]

NoRuns == [c \in {} |-> 0]

\* =========================================================================
\* LayoutEngine.compute as called by a caller with devices of its choice
\* =========================================================================
LayoutInit ==
    /\ device \in Devices
    /\ now \in {t \in ValidDates : t.month = 1 /\ t.day = 1}
    /\ grid = NoGrid
    /\ lastCall = NoCall
    /\ palette = NoPalette /\ img = NoImage /\ img_max = NoImage /\ rand = NoDraw
    /\ pc = "layout" /\ files = NoFiles /\ error = "None" /\ todayRuns = NoRuns

\* grid = LayoutEngine.compute(device, now.year)
LayoutCompute ==
    /\ grid = NoGrid
    /\ grid' = compute(device, now.year)
    /\ UNCHANGED <<now, device, palette, img, img_max, rand, lastCall, pc, files, error,
                   todayRuns>>

\* the caller goes on to another device; the call just made is remembered
LayoutNextDevice ==
    /\ grid # NoGrid
    /\ lastCall = NoCall
    /\ \E d \in Devices : device' = d
    /\ lastCall' = [device |-> device, year |-> now.year, grid |-> grid]
    /\ grid' = NoGrid
    /\ UNCHANGED <<now, palette, img, img_max, rand, pc, files, error, todayRuns>>

LayoutNext == LayoutCompute \/ LayoutNextDevice

SpecLayout == LayoutInit /\ [][LayoutNext]_vars

\* LayoutEngine.compute called once for a device and a year: the grids are
\* those of SpecLayout, without the history of an earlier call
GridNext == LayoutCompute

SpecGrid == LayoutInit /\ [][GridNext]_vars

\* =========================================================================
\* PaletteFactory.generate
\* =========================================================================
PaletteInit ==
    /\ palette = NoPalette /\ rand = NoDraw
    /\ device = DEVICE_STANDARD
    /\ now \in {t \in ValidDates : t.year = 2024 /\ t.month = 1 /\ t.day = 1}
    /\ grid = NoGrid /\ lastCall = NoCall /\ img = NoImage /\ img_max = NoImage
    /\ pc = "palette" /\ files = NoFiles /\ error = "None" /\ todayRuns = NoRuns

\* palette = PaletteFactory.generate()
PaletteGenerate ==
    /\ \E k \in HarmonyTypes, b \in BaseHues :
         \E u \in DrawsOf(k) :
            /\ rand' = [harmony |-> k, base_hue |-> b, u |-> u]
            /\ palette' = generate(k, b, u)
    /\ UNCHANGED <<now, device, grid, img, img_max, lastCall, pc, files, error, todayRuns>>

PaletteNext == PaletteGenerate

SpecPalette == PaletteInit /\ [][PaletteNext]_vars

\* =========================================================================
\* LayoutEngine.compute then Renderer.render, for a target device, a palette
\* and a date
\* =========================================================================
\* one palette of each harmony kind
RenderPalettes == {generate(k, 173, 0) : k \in HarmonyTypes}

RenderInit ==
    /\ device \in {DEVICE_STANDARD, DEVICE_MAX}
    /\ now \in ValidDates
    /\ palette \in RenderPalettes
    /\ grid = NoGrid /\ img = NoImage
    /\ img_max = NoImage /\ rand = NoDraw /\ lastCall = NoCall
    /\ pc = "render" /\ files = NoFiles /\ error = "None" /\ todayRuns = NoRuns

\* grid = LayoutEngine.compute(device, now.year)
RenderCompute ==
    /\ grid = NoGrid
    /\ grid' = compute(device, now.year)
    /\ UNCHANGED <<now, device, palette, img, img_max, rand, lastCall, pc, files, error,
                   todayRuns>>

\* img = Renderer(device, palette, grid).render(now.year, now.month, now.day)
RenderRender ==
    /\ grid # NoGrid
    /\ img = NoImage
    /\ img' = render(device, palette, grid, now.year, now.month, now.day)
    /\ UNCHANGED <<now, device, palette, grid, img_max, rand, lastCall, pc, files, error,
                   todayRuns>>

RenderNext == RenderCompute \/ RenderRender

SpecRender == RenderInit /\ [][RenderNext]_vars

\* =========================================================================
\* The wallpaper regenerated day after day through one year
\* (_render_for_device once a day, the date advancing at midnight)
\* =========================================================================
\* the date after t, within its year
NextDay(t) ==
    IF t.day < DaysInMonth(t.year, t.month)
    THEN [t EXCEPT !.day = t.day + 1]
    ELSE [t EXCEPT !.month = t.month + 1, !.day = 1]

IsLastDay(t) == t.month = 12 /\ t.day = 31

DailyInit ==
    /\ now \in {t \in ValidDates : t.month = 1 /\ t.day = 1}
    /\ device \in {DEVICE_STANDARD, DEVICE_MAX}
    /\ palette = NoPalette /\ grid = NoGrid /\ img = NoImage
    /\ pc = "due"
    /\ todayRuns = [c \in Cells(now.year) |-> 0]
    /\ img_max = NoImage /\ rand = NoDraw /\ lastCall = NoCall
    /\ files = NoFiles /\ error = "None"

\* the palettes a day's run may draw: two kinds, of different past and today
\* colours
DailyPalettes == {generate(k, 173, 0) : k \in {"ANALOGOUS", "TRIADIC"}}

\* the day's run: a fresh palette, then _render_for_device(device, palette, now)
DailyRun ==
    /\ pc = "due"
    /\ \E p \in DailyPalettes :
          /\ palette' = p
          /\ grid' = compute(device, now.year)
          /\ img' = render_for_device(device, p, now)
          /\ todayRuns' = [c \in DOMAIN todayRuns |->
                              IF img'.dots[c[1]][c[2]] = p.today
                              THEN todayRuns[c] + 1 ELSE todayRuns[c]]
    /\ pc' = "ran"
    /\ UNCHANGED <<now, device, img_max, rand, lastCall, files, error>>

\* midnight: datetime.now() of the next run is the next day
DailyMidnight ==
    /\ pc = "ran"
    /\ ~IsLastDay(now)
    /\ now' = NextDay(now)
    /\ pc' = "due"
    /\ UNCHANGED <<device, palette, grid, img, img_max, rand, lastCall, files, error,
                   todayRuns>>

DailyNext == DailyRun \/ DailyMidnight

SpecDaily == DailyInit /\ [][DailyNext]_vars

\* =========================================================================
\* main(): one run of the script
\* =========================================================================
\* bytes of a file whose writing failed part-way
Partial == [none |-> "partial"]

\* img.save(path, format="PNG"): PNG is lossless, the file holds the image
Png(image) == [format |-> "PNG", data |-> image]

\* export_palette: {"generated_at": now.isoformat(), **palette.to_dict()}
PaletteMeta(p, t) ==
    [ generated_at |-> t,
      palette_name |-> p.name,
      colors |-> [background |-> p.bg, past |-> p.past, today |-> p.today,
                  future |-> p.future] ]

\* the dates tried for a run: the first day of every month, and the last day
\* of February and of December
MainDates == {t \in ValidDates :
                 \/ t.day = 1
                 \/ (t.month \in {2, 12} /\ t.day = DaysInMonth(t.year, t.month))}

MainInit ==
    /\ now \in MainDates
    /\ pc = "mkdir"
    /\ device = DEVICE_STANDARD
    /\ palette = NoPalette /\ rand = NoDraw
    /\ grid = NoGrid /\ img = NoImage /\ img_max = NoImage
    /\ files = NoFiles /\ error = "None"
    /\ lastCall = NoCall /\ todayRuns = NoRuns

\* an I/O call raises: nothing catches it, the run ends
Raise(e) == pc' = "failed" /\ error' = e

\* output_dir.mkdir(parents=True, exist_ok=True)
MainMkdir ==
    /\ pc = "mkdir"
    /\ pc' = "generate"
    /\ UNCHANGED <<now, device, palette, grid, img, img_max, rand, lastCall, files, error,
                   todayRuns>>

MainMkdirFails ==
    /\ pc = "mkdir"
    /\ Raise("OSError")
    /\ UNCHANGED <<now, device, palette, grid, img, img_max, rand, lastCall, files,
                   todayRuns>>

\* palette = PaletteFactory.generate()
MainGenerate ==
    /\ pc = "generate"
    /\ \E k \in HarmonyTypes, b \in BaseHues :
         \E u \in DrawsOf(k) :
            /\ rand' = [harmony |-> k, base_hue |-> b, u |-> u]
            /\ palette' = generate(k, b, u)
    /\ pc' = "render_std"
    /\ UNCHANGED <<now, device, grid, img, img_max, lastCall, files, error, todayRuns>>

\* img = _render_for_device(DEVICE_STANDARD, palette, now)
MainRenderStandard ==
    /\ pc = "render_std"
    /\ device' = DEVICE_STANDARD
    /\ grid' = compute(DEVICE_STANDARD, now.year)
    /\ img' = render_for_device(DEVICE_STANDARD, palette, now)
    /\ pc' = "save_std"
    /\ UNCHANGED <<now, palette, img_max, rand, lastCall, files, error, todayRuns>>

\* img.save(output_dir / "latest.png", format="PNG", optimize=True)
MainSaveStandard ==
    /\ pc = "save_std"
    /\ files' = [files EXCEPT ![LATEST_PNG] = Png(img)]
    /\ pc' = "render_max"
    /\ UNCHANGED <<now, device, palette, grid, img, img_max, rand, lastCall, error,
                   todayRuns>>

\* the save raises; the file is untouched or holds a part of the image
MainSaveStandardFails ==
    /\ pc = "save_std"
    /\ \E c \in {files[LATEST_PNG], Partial} : files' = [files EXCEPT ![LATEST_PNG] = c]
    /\ Raise("OSError")
    /\ UNCHANGED <<now, device, palette, grid, img, img_max, rand, lastCall, todayRuns>>

\* img_max = _render_for_device(DEVICE_MAX, palette, now)
MainRenderMax ==
    /\ pc = "render_max"
    /\ device' = DEVICE_MAX
    /\ grid' = compute(DEVICE_MAX, now.year)
    /\ img_max' = render_for_device(DEVICE_MAX, palette, now)
    /\ pc' = "save_max"
    /\ UNCHANGED <<now, palette, img, rand, lastCall, files, error, todayRuns>>

\* MainSaveMax saving the first image again: img.save(path_max, ...)
MainSaveMaxOfStandard ==
    /\ pc = "save_max"
    /\ files' = [files EXCEPT ![LATEST_MAX_PNG] = Png(img)]
    /\ pc' = "export"
    /\ UNCHANGED <<now, device, palette, grid, img, img_max, rand, lastCall, error,
                   todayRuns>>

\* img_max.save(output_dir / "latest_max.png", format="PNG", optimize=True)
MainSaveMax ==
    /\ pc = "save_max"
    /\ files' = [files EXCEPT ![LATEST_MAX_PNG] = Png(img_max)]
    /\ pc' = "export"
    /\ UNCHANGED <<now, device, palette, grid, img, img_max, rand, lastCall, error,
                   todayRuns>>

MainSaveMaxFails ==
    /\ pc = "save_max"
    /\ \E c \in {files[LATEST_MAX_PNG], Partial} :
          files' = [files EXCEPT ![LATEST_MAX_PNG] = c]
    /\ Raise("OSError")
    /\ UNCHANGED <<now, device, palette, grid, img, img_max, rand, lastCall, todayRuns>>

\* export_palette(palette, now, output_dir)
MainExport ==
    /\ pc = "export"
    /\ files' = [files EXCEPT ![PALETTE_JSON] = PaletteMeta(palette, now)]
    /\ pc' = "done"
    /\ UNCHANGED <<now, device, palette, grid, img, img_max, rand, lastCall, error,
                   todayRuns>>

MainExportFails ==
    /\ pc = "export"
    /\ \E c \in {files[PALETTE_JSON], Partial} : files' = [files EXCEPT ![PALETTE_JSON] = c]
    /\ Raise("OSError")
    /\ UNCHANGED <<now, device, palette, grid, img, img_max, rand, lastCall, todayRuns>>

Next ==
    \/ MainMkdir
    \/ MainMkdirFails
    \/ MainGenerate
    \/ MainRenderStandard
    \/ MainSaveStandard
    \/ MainSaveStandardFails
    \/ MainRenderMax
    \/ MainSaveMax
    \/ MainSaveMaxFails
    \/ MainExport
    \/ MainExportFails

Init == MainInit

Spec == Init /\ [][Next]_vars

\* =========================================================================
\* Properties of LayoutEngine.compute (checked under SpecLayout)
\* =========================================================================
ContentWidth(dev) == content_bounds(dev)[3] - content_bounds(dev)[1]
ContentHeight(dev) == content_bounds(dev)[4] - content_bounds(dev)[2]

\* a profile whose content rectangle has positive width and height
PositiveContent(dev) == ContentWidth(dev) > 0 /\ ContentHeight(dev) > 0

Computed == grid # NoGrid

\* box a lies within box b grown by pad on every side
WithinExpanded(a, b, pad) ==
    /\ b[1] - pad <= a[1]
    /\ b[2] - pad <= a[2]
    /\ a[3] <= b[3] + pad
    /\ a[4] <= b[4] + pad

\* C2 (as claimed): grid containment. For every device profile with a
\* positive-size content rectangle, every year and every drawn cell, the box
\* of the drawn circle, with the geometry compute returned, lies within
\* device.content_bounds expanded by the backdrop padding (40 px) on every
\* side.
C2_GridContainment ==
    (Computed /\ PositiveContent(device)) =>
        \A c \in Cells(now.year) :
            WithinExpanded(DotBox(grid, c[1], c[2]), content_bounds(device), ISLAND_PADDING)

\* C3 (as claimed): compute fails with a ConfigurationError, returning no
\* GridConfig, exactly when the content rectangle has non-positive width or
\* height; for every device with a positive-size content rectangle it returns
\* a GridConfig.
C3_ConfigurationError ==
    (Computed \/ error # "None") =>
        IF PositiveContent(device)
        THEN Computed /\ error = "None"
        ELSE ~Computed /\ error = "ConfigurationError"

\* the exact quotient n / d truncated to an integer, d > 0
ExactTrunc(n, d) == IF n >= 0 THEN n \div d ELSE 0 - ((0 - n) \div d)

Clamp(v, lo, hi) == IF v < lo THEN lo ELSE IF v > hi THEN hi ELSE v

\* the largest day count of any month of the year
MaxRows(y) == CHOOSE x \in 28..31 :
                  /\ \E m \in Months : DaysInMonth(y, m) = x
                  /\ \A m \in Months : DaysInMonth(y, m) <= x

\* C4 (as claimed): the radius of the returned GridConfig equals
\* clamp(min(trunc(content_width / (24 + 11*1.8)),
\*           trunc(content_height / (maxRows * 2.6))), 10, 22),
\* the quotients taken exactly (43.8 = 219/5, maxRows * 2.6 = 13 * maxRows / 5);
\* consequently 10 <= radius <= 22.
C4_RadiusFormula ==
    Computed =>
        /\ grid.radius =
               Clamp(Min(ExactTrunc(5 * ContentWidth(device), 219),
                         ExactTrunc(5 * ContentHeight(device), 13 * MaxRows(now.year))),
                     10, 22)
        /\ 10 <= grid.radius /\ grid.radius <= 22

\* round(n / d) of Python for n, d > 0: to nearest, ties to even
RoundDiv(n, d) ==
    LET q == n \div d
        r == n % d
    IN IF 2 * r > d THEN q + 1
       ELSE IF 2 * r < d THEN q
       ELSE IF q % 2 = 0 THEN q ELSE q + 1

\* C5 (as claimed): step_x = 2*radius + round(radius*1.8) and
\* step_y = 2*radius + round(radius*0.6), for every radius in 10..22.
C5_StepRounded ==
    Computed =>
        /\ grid.radius \in 10..22
        /\ grid.step_x = 2 * grid.radius + RoundDiv(9 * grid.radius, 5)
        /\ grid.step_y = 2 * grid.radius + RoundDiv(3 * grid.radius, 5)

\* C5 (amended): the gaps are truncated, not rounded: step_x - 2*radius is the
\* integer g with g <= radius*1.8 < g + 1, step_y - 2*radius the integer g with
\* g <= radius*0.6 < g + 1, for every radius in 10..22.
C5_StepTruncated ==
    Computed =>
        LET r == grid.radius
            gx == grid.step_x - 2 * r
            gy == grid.step_y - 2 * r
        IN /\ r \in 10..22
           /\ 5 * gx <= 9 * r /\ 9 * r < 5 * (gx + 1)
           /\ 5 * gy <= 3 * r /\ 3 * r < 5 * (gy + 1)

\* C5 witness: a returned grid whose radius makes truncation and rounding
\* differ in both pitches (radius 16: 28.8 -> 28, 9.6 -> 9)
C5_Witness ==
    Computed /\ grid.radius = 16 /\ grid.step_x = 32 + 28 /\ grid.step_y = 32 + 9

SameInsets(d1, d2) == d1.safe_zone = d2.safe_zone

\* C9: radius monotonicity. For any year the radius compute returns for the
\* Max profile is >= the one it returns for the Standard profile, and for any
\* two devices with identical insets where the second is at least as wide and
\* at least as high as the first, the second's radius is >= the first's;
\* neither radius exceeds 22.
C9_RadiusMonotone ==
    (Computed /\ lastCall # NoCall /\ lastCall.year = now.year) =>
        /\ grid.radius <= 22 /\ lastCall.grid.radius <= 22
        /\ (lastCall.device = DEVICE_STANDARD /\ device = DEVICE_MAX)
               => grid.radius >= lastCall.grid.radius
        /\ ( /\ SameInsets(lastCall.device, device)
             /\ device.width >= lastCall.device.width
             /\ device.height >= lastCall.device.height )
               => grid.radius >= lastCall.grid.radius

\* C9 witness: compute called for Standard, then for Max (radius 18, then 20)
C9_Witness ==
    /\ Computed /\ lastCall # NoCall
    /\ lastCall.device = DEVICE_STANDARD /\ device = DEVICE_MAX
    /\ lastCall.grid.radius = 18 /\ grid.radius = 20

\* =========================================================================
\* Properties of PaletteFactory.generate (checked under SpecPalette)
\* =========================================================================
LowerChar ==
    [ A |-> "a", B |-> "b", C |-> "c", D |-> "d", E |-> "e", F |-> "f", G |-> "g",
      H |-> "h", I |-> "i", J |-> "j", K |-> "k", L |-> "l", M |-> "m", N |-> "n",
      O |-> "o", P |-> "p", Q |-> "q", R |-> "r", S |-> "s", T |-> "t", U |-> "u",
      V |-> "v", W |-> "w", X |-> "x", Y |-> "y", Z |-> "z" ]

\* str.lower()
Lower(str) ==
    [i \in DOMAIN str |-> IF str[i] \in DOMAIN LowerChar THEN LowerChar[str[i]] ELSE str[i]]

\* the decimal number a sequence of digit characters spells
RECURSIVE DigitsValue(_)
DigitsValue(str) ==
    IF str = <<>> THEN 0
    ELSE 10 * DigitsValue(SubSeq(str, 1, Len(str) - 1))
         + ((CHOOSE i \in 1..10 : Digit[i] = str[Len(str)]) - 1)

IsDigits(str) == str # <<>> /\ \A i \in DOMAIN str : \E j \in 1..10 : Digit[j] = str[i]

\* name = head + "_" + digits, the digits spelling int(base_hue)
NamedAfter(name, head, base_hue) ==
    LET n == Len(head) + 1
    IN /\ Len(name) > n
       /\ SubSeq(name, 1, Len(head)) = head
       /\ name[n] = "_"
       /\ IsDigits(SubSeq(name, n + 1, Len(name)))
       /\ LET v == DigitsValue(SubSeq(name, n + 1, Len(name)))
          IN /\ v * HueScale <= base_hue
             /\ base_hue < (v + 1) * HueScale
             /\ (Len(name) > n + 1 => name[n + 1] # "0")

Generated == palette # NoPalette

\* C8 (as claimed): for each harmony kind and every base hue B, the palette's
\* name is the lowercase name of the chosen kind, an underscore, int(B).
C8_NameIsLowercaseKind ==
    Generated => NamedAfter(palette.name, Lower(HarmonyName[rand.harmony]), rand.base_hue)

\* C8 (amended): the name is the lowercase name of the chosen kind, an
\* underscore and int(B) for Analogous, Complementary, Triadic and
\* Monochromatic; for SplitComplementary it is "split_comp", an underscore and
\* int(B).
C8_NameOfBuilder ==
    Generated =>
        IF rand.harmony = "SPLIT_COMPLEMENTARY"
        THEN NamedAfter(palette.name, <<"s","p","l","i","t","_","c","o","m","p">>,
                        rand.base_hue)
        ELSE NamedAfter(palette.name, Lower(HarmonyName[rand.harmony]), rand.base_hue)

\* C8 witness: a split-complementary palette of a fractional base hue
\* (86.5 degrees) is named split_comp_86
C8_Witness ==
    /\ Generated
    /\ rand.harmony = "SPLIT_COMPLEMENTARY"
    /\ rand.base_hue = 86 * HueScale + 1
    /\ palette.name = <<"s","p","l","i","t","_","c","o","m","p","_","8","6">>

\* =========================================================================
\* Properties of Renderer.render (checked under SpecRender)
\* =========================================================================
Rendered == img # NoImage

IsPast(m, d, t) == m < t.month \/ (m = t.month /\ d < t.day)
IsToday(m, d, t) == m = t.month /\ d = t.day

\* C1: for every year, every valid current date and every drawn cell (m, d),
\* _draw_dots colours the cell with palette.past iff m < month or (m == month
\* and d < day), with palette.today iff m == month and d == day, and with
\* palette.future otherwise; the drawn cells are the days of the year; for
\* 2024-02-29 cell (1,15) is Past, (2,29) is Today and (3,1) is Future.
C1_ClassificationExact ==
    Rendered =>
        /\ DrawnCells(img) = Cells(now.year)
        /\ \A c \in DrawnCells(img) :
              LET fill == img.dots[c[1]][c[2]]
              IN /\ (fill = palette.past) <=> IsPast(c[1], c[2], now)
                 /\ (fill = palette.today) <=> IsToday(c[1], c[2], now)
                 /\ (fill = palette.future) <=>
                        (~IsPast(c[1], c[2], now) /\ ~IsToday(c[1], c[2], now))
        /\ (now = [year |-> 2024, month |-> 2, day |-> 29]) =>
              /\ img.dots[1][15] = palette.past
              /\ img.dots[2][29] = palette.today
              /\ img.dots[3][1] = palette.future

\* C1 witness: the wallpaper of 2024-02-29 has been rendered, with the three
\* cells of the scenario in their colours
C1_Witness ==
    /\ Rendered
    /\ now = [year |-> 2024, month |-> 2, day |-> 29]
    /\ img.dots[1][15] = palette.past
    /\ img.dots[2][29] = palette.today
    /\ img.dots[3][1] = palette.future

\* C7: for the Standard profile, any palette and any valid date, compute
\* followed by render yields an image of exactly 1170 x 2532 pixels whose
\* pixel (0,0) equals palette.bg: neither the backdrop nor a dot covers it.
C7_RoundTripStandard ==
    (Rendered /\ device = DEVICE_STANDARD) =>
        /\ img.width = 1170 /\ img.height = 2532
        /\ GetPixel(img, 0, 0) = palette.bg

\* C7 witness: the Standard wallpaper of 2025-06-15, its corner the background
C7_Witness ==
    /\ Rendered /\ device = DEVICE_STANDARD
    /\ now = [year |-> 2025, month |-> 6, day |-> 15]
    /\ img.width = 1170 /\ img.height = 2532
    /\ GetPixel(img, 0, 0) = palette.bg

\* =========================================================================
\* Properties of successive daily runs (checked under SpecDaily)
\* =========================================================================
\* the state _draw_dots gave cell c in an image drawn with palette p
ClassOf(image, p, c) ==
    LET fill == image.dots[c[1]][c[2]]
    IN IF fill = p.past THEN "Past"
       ELSE IF fill = p.today THEN "Today"
       ELSE IF fill = p.future THEN "Future"
       ELSE "None"

Rank(class) == CASE class = "Future" -> 0 [] class = "Today" -> 1 [] class = "Past" -> 2
                 [] OTHER -> 0 - 1

\* a cell lies on or before the date t
OnOrBefore(c, t) == c[1] < t.month \/ (c[1] = t.month /\ c[2] <= t.day)

\* from one rendered wallpaper to the next no cell moves backwards
C10_StepForward ==
    (img # NoImage /\ img' # NoImage) =>
        \A c \in DrawnCells(img) :
            /\ Rank(ClassOf(img, palette, c)) >= 0
            /\ Rank(ClassOf(img', palette', c)) >= Rank(ClassOf(img, palette, c))
            /\ ClassOf(img, palette, c) = "Past" => ClassOf(img', palette', c) = "Past"

\* after the run of a day, the cells drawn as today in exactly one run so far
\* are those up to that day, the others in none
C10_TodayOnce ==
    \A c \in DOMAIN todayRuns :
        /\ todayRuns[c] <= 1
        /\ pc = "ran" => (todayRuns[c] = 1 <=> OnOrBefore(c, now))

\* C10: regenerated on successive days of one year, from Jan 1 to Dec 31, the
\* classification of every drawn cell only moves forward, Future -> Today ->
\* Past: a Past cell stays Past, no cell returns to Future, and a cell is Today
\* on exactly one date.
C10_ForwardOnly == [](C10_TodayOnce) /\ [][C10_StepForward]_vars

\* C10 witness: the run of Dec 31 of a leap year is done; Feb 29 has been
\* today once and is Past, Dec 31 is Today, every cell has been today once
C10_Witness ==
    /\ pc = "ran" /\ IsLastDay(now) /\ IsLeap(now.year)
    /\ ClassOf(img, palette, <<2, 29>>) = "Past"
    /\ ClassOf(img, palette, <<12, 31>>) = "Today"
    /\ \A c \in DOMAIN todayRuns : todayRuns[c] = 1

\* =========================================================================
\* Properties of main() (checked under Spec)
\* =========================================================================
Written(f) == files[f] # NotWritten

\* C6 (as claimed): a run either completes or fails atomically: in every run
\* in which a step fails, no partial output (neither image nor palette
\* metadata) has been written to the destination.
C6_FailsAtomically ==
    pc = "failed" => \A f \in Paths : ~Written(f)

\* C6 (amended): nothing is written to the destination before a full raster is
\* in memory: an image file is written only once the image of its device has
\* been rendered completely, a completed save holds exactly that image, and
\* the palette metadata is written only after both images were saved. A run
\* that fails after a save leaves the files written so far in place.
C6_WrittenAfterRaster ==
    /\ Written(LATEST_PNG) =>
          /\ img = render_for_device(DEVICE_STANDARD, palette, now)
          /\ files[LATEST_PNG] \in {Png(img), Partial}
    /\ Written(LATEST_MAX_PNG) =>
          /\ img_max = render_for_device(DEVICE_MAX, palette, now)
          /\ files[LATEST_MAX_PNG] \in {Png(img_max), Partial}
          /\ files[LATEST_PNG] = Png(img)
    /\ Written(PALETTE_JSON) =>
          /\ files[LATEST_PNG] = Png(img)
          /\ files[LATEST_MAX_PNG] = Png(img_max)
    /\ pc = "done" =>
          /\ files[LATEST_PNG] = Png(img)
          /\ files[LATEST_MAX_PNG] = Png(img_max)
          /\ files[PALETTE_JSON] = PaletteMeta(palette, now)

\* C6 witness: the run failed while saving the second image, the first image
\* is in place
C6_Witness ==
    /\ pc = "failed" /\ error = "OSError"
    /\ files[LATEST_PNG] = Png(img)
    /\ img_max # NoImage
    /\ files[LATEST_MAX_PNG] # Png(img_max)
    /\ ~Written(PALETTE_JSON)

\* =========================================================================
\* No two dots overlap (checked under SpecLayout)
\* =========================================================================
\* the inclusive intervals [a1, a2] and [b1, b2] share no point
IntervalsDisjoint(a1, a2, b1, b2) == a2 < b1 \/ b2 < a1

\* the inclusive boxes a and b share no pixel
BoxesDisjoint(a, b) ==
    \/ IntervalsDisjoint(a[1], a[3], b[1], b[3])
    \/ IntervalsDisjoint(a[2], a[4], b[2], b[4])

\* the box of cell (m1, d1) is disjoint from the box of every cell drawn
\* after it
DisjointFromLater(g, y, m1, d1, box1) ==
    \A m2 \in m1..12 : \A d2 \in 1..DaysInMonth(y, m2) :
        (m2 > m1 \/ d2 > d1) => BoxesDisjoint(box1, DotBox(g, m2, d2))

\* every two different cells of the year have disjoint boxes, pair by pair
AllPairsDisjoint(g, y) ==
    \A m1 \in Months : \A d1 \in 1..DaysInMonth(y, m1) :
        DisjointFromLater(g, y, m1, d1, DotBox(g, m1, d1))

\* C11: for every GridConfig compute returns (any device, any year) no two
\* distinct drawn dots overlap: step_x > 2*radius and step_y > 2*radius, and
\* the inclusive boxes [cx - radius, cx + radius] x [cy - radius, cy + radius]
\* of any two different (month, day) cells are disjoint, so a later-drawn dot
\* never overwrites pixels of an earlier one.
C11_NoOverlap ==
    Computed =>
        /\ grid.step_x > 2 * grid.radius
        /\ grid.step_y > 2 * grid.radius
        /\ AllPairsDisjoint(grid, now.year)

\* C11 witness: the Standard grid (radius 18, pitches 68 and 46): the box of
\* cell (1,1) ends at x = 229, y = 756, those of (2,1) and (1,2) begin at
\* x = 261 and y = 766
C11_Witness ==
    /\ Computed /\ device = DEVICE_STANDARD
    /\ DotBox(grid, 1, 1) = <<193, 720, 229, 756>>
    /\ DotBox(grid, 2, 1)[1] = 261
    /\ DotBox(grid, 1, 2)[2] = 766
    /\ BoxesDisjoint(DotBox(grid, 1, 1), DotBox(grid, 2, 2))

====
